---- MODULE Spec2Model ----
(***************************************************************************)
(* The grammar parse tree of src/grammar/parse_tree.rs and its canonical   *)
(* textual rendering.                                                      *)
(*                                                                         *)
(* A String is a sequence of one-character strings, an InternedString is   *)
(* the text it stands for, a Vec is a sequence, an Option is a sequence of *)
(* length 0 or 1, and a Formatter is the String written so far: every fmt  *)
(* operator takes the buffer and returns the buffer with its output        *)
(* appended, piece by piece as the write! calls of the source do.          *)
(***************************************************************************)
EXTENDS Naturals, Sequences, FiniteSets, TLC

VARIABLES input, focus, out, is_macro, memo

vars == <<input, focus, out, is_macro, memo>>

None == <<>>
Some(x) == <<x>>

\* The characters that a TLA+ string cannot hold or that are easy to misread.
Backtick == "backtick"
Quote == "\""

(***************************************************************************)
(* Bounds of the model.                                                    *)
(***************************************************************************)
\* The largest number of nodes of a Symbol or TypeRef tree drawn as input.
MaxNodes == 3

\* Source spans (start offset, end offset).
Spans == { <<0, 1>>, <<2, 5>> }

\* Interned texts: terminal literals (no double quote) and plain identifiers.
TerminalTexts == { <<",">> }
NonterminalTexts == { <<"E">>, <<"v">> }
BindingTexts == { <<"v">> }
MacroTexts == { <<"C">> }
RepeatOps == { "Star", "Plus", "Question" }
Paths == { <<<<"V", "e", "c">>>>, <<<<"p">>, <<"T", "o", "k">>>> }
LifetimeTexts == { <<"'", "a">> }
TypeIdTexts == { <<"T">> }

(***************************************************************************)
(* The data model: one constructor per struct and per enum variant.        *)
(***************************************************************************)
Span(lo, hi) == <<lo, hi>>

ExprSymbol(span, symbols) == [span |-> span, symbols |-> symbols]
MacroSymbol(name, args, span) == [name |-> name, args |-> args, span |-> span]
RepeatSymbol(op, symbol) == [op |-> op, symbol |-> symbol]

Symbol_Expr(e) == [tag |-> "Expr", expr |-> e]
Symbol_Terminal(s) == [tag |-> "Terminal", s |-> s]
Symbol_Nonterminal(s) == [tag |-> "Nonterminal", s |-> s]
Symbol_Macro(m) == [tag |-> "Macro", m |-> m]
Symbol_Repeat(r) == [tag |-> "Repeat", r |-> r]
Symbol_Choose(s) == [tag |-> "Choose", symbol |-> s]
Symbol_Name(n, s) == [tag |-> "Name", name |-> n, symbol |-> s]

TypeRef_Tuple(types) == [tag |-> "Tuple", types |-> types]
TypeRef_Nominal(path, types) == [tag |-> "Nominal", path |-> path, types |-> types]
TypeRef_Lifetime(s) == [tag |-> "Lifetime", s |-> s]
TypeRef_Id(s) == [tag |-> "Id", s |-> s]
TypeRef_OfSymbol(s) == [tag |-> "OfSymbol", symbol |-> s]

Condition(span, lhs, rhs, op) == [span |-> span, lhs |-> lhs, rhs |-> rhs, op |-> op]
Action_User(code) == [tag |-> "User", code |-> code]
Action_Fn(index) == [tag |-> "Fn", index |-> index]
Alternative(span, expr, condition, action) == [span |-> span, expr |-> expr, condition |-> condition, action |-> action]

NonterminalData(name, args, type_decl, alternatives) == [name |-> name, args |-> args, type_decl |-> type_decl, alternatives |-> alternatives]
TokenTypeData(type_name, conversions) == [type_name |-> type_name, conversions |-> conversions]
GrammarItem_TokenType(d) == [tag |-> "TokenType", data |-> d]
GrammarItem_Nonterminal(d) == [tag |-> "Nonterminal", data |-> d]

(***************************************************************************)
(* The two derived queries.                                                *)
(***************************************************************************)
\* Mutant: the negation is lost.
NonterminalData_is_macro_def_empty(self) == Len(self.args) = 0

NonterminalData_is_macro_def(self) == ~(Len(self.args) = 0)

\* Mutant: the catch-all arm answers true.
GrammarItem_is_macro_def_any(self) ==
    CASE self.tag = "Nonterminal" -> NonterminalData_is_macro_def(self.data)
      [] OTHER -> TRUE

GrammarItem_is_macro_def(self) ==
    CASE self.tag = "Nonterminal" -> NonterminalData_is_macro_def(self.data)
      [] OTHER -> FALSE

(***************************************************************************)
(* Rendering.                                                              *)
(***************************************************************************)
RECURSIVE Symbol_fmt(_, _), TypeRef_fmt(_, _), Display_fmt(_, _, _)
RECURSIVE Sep_fmt(_, _, _, _), ExprSymbol_fmt(_, _), MacroSymbol_fmt(_, _)
RECURSIVE RepeatSymbol_fmt(_, _), TypeRef_fmt_Nominal(_, _, _)

\* Display of an interned string writes its text.
InternedString_fmt(self, buf) == buf \o self

\* Mutant: Plus writes the glyph of Star.
RepeatOp_fmt_star(self, buf) ==
    CASE self = "Plus" -> buf \o <<"*">>
      [] self = "Star" -> buf \o <<"*">>
      [] self = "Question" -> buf \o <<"?">>

RepeatOp_fmt(self, buf) ==
    CASE self = "Plus" -> buf \o <<"+">>
      [] self = "Star" -> buf \o <<"*">>
      [] self = "Question" -> buf \o <<"?">>

RepeatSymbol_fmt(self, buf) == RepeatOp_fmt(self.op, Symbol_fmt(self.symbol, buf))

\* The while loop of Sep's fmt: elems.next() has returned vec[1..i-1].
RECURSIVE Sep_fmt_while(_, _, _, _, _)
Sep_fmt_while(sep, kind, vec, i, buf) ==
    IF i > Len(vec)
    THEN buf
    ELSE Sep_fmt_while(sep, kind, vec, i + 1, Display_fmt(kind, vec[i], buf \o sep))

\* Mutant: the separator is written before every element, the first too.
Sep_fmt_leading(sep, kind, vec, buf) == Sep_fmt_while(sep, kind, vec, 1, buf)

Sep_fmt(sep, kind, vec, buf) ==
    IF Len(vec) >= 1
    THEN Sep_fmt_while(sep, kind, vec, 2, Display_fmt(kind, vec[1], buf))
    ELSE buf

\* Mutant: the children are joined as macro arguments are.
ExprSymbol_fmt_comma(self, buf) ==
    Sep_fmt(<<",", " ">>, "Symbol", self.symbols, buf \o <<"(">>) \o <<")">>

ExprSymbol_fmt(self, buf) ==
    Sep_fmt(<<" ">>, "Symbol", self.symbols, buf \o <<"(">>) \o <<")">>

RECURSIVE usize_fmt(_, _)
\* Display of a usize writes its decimal digits.
usize_fmt(self, buf) ==
    IF self < 10
    THEN buf \o << <<"0", "1", "2", "3", "4", "5", "6", "7", "8", "9">>[self + 1] >>
    ELSE usize_fmt(self % 10, usize_fmt(self \div 10, buf))

\* Mutant: the start of the span is written after the arguments.
MacroSymbol_fmt_span(self, buf) ==
    usize_fmt(self.span[1],
              Sep_fmt(<<",", " ">>, "Symbol", self.args, InternedString_fmt(self.name, buf) \o <<"<">>) \o <<">", "@">>)

MacroSymbol_fmt(self, buf) ==
    Sep_fmt(<<",", " ">>, "Symbol", self.args, InternedString_fmt(self.name, buf) \o <<"<">>) \o <<">">>

\* Mutant: the Expr arm writes parentheses of its own.
Symbol_fmt_parens(self, buf) ==
    CASE self.tag = "Expr" -> ExprSymbol_fmt(self.expr, buf \o <<"(">>) \o <<")">>
      [] self.tag = "Terminal" -> (buf \o <<Quote>>) \o self.s \o <<Quote>>
      [] self.tag = "Nonterminal" -> InternedString_fmt(self.s, buf)
      [] self.tag = "Macro" -> MacroSymbol_fmt(self.m, buf)
      [] self.tag = "Repeat" -> RepeatSymbol_fmt(self.r, buf)
      [] self.tag = "Choose" -> Symbol_fmt(self.symbol, buf \o <<"~">>)
      [] self.tag = "Name" -> Symbol_fmt(self.symbol, InternedString_fmt(self.name, buf \o <<"~">>) \o <<":">>)

Symbol_fmt(self, buf) ==
    CASE self.tag = "Expr" -> ExprSymbol_fmt(self.expr, buf)
      [] self.tag = "Terminal" -> (buf \o <<Quote>>) \o self.s \o <<Quote>>
      [] self.tag = "Nonterminal" -> InternedString_fmt(self.s, buf)
      [] self.tag = "Macro" -> MacroSymbol_fmt(self.m, buf)
      [] self.tag = "Repeat" -> RepeatSymbol_fmt(self.r, buf)
      [] self.tag = "Choose" -> Symbol_fmt(self.symbol, buf \o <<"~">>)
      [] self.tag = "Name" -> Symbol_fmt(self.symbol, InternedString_fmt(self.name, buf \o <<"~">>) \o <<":">>)

\* Mutant: the guard of the first Nominal arm is lost.
TypeRef_fmt_Nominal_always(path, types, buf) ==
    Sep_fmt(<<",", " ">>, "TypeRef", types, Sep_fmt(<<":", ":">>, "InternedString", path, buf) \o <<"<">>) \o <<">">>

\* The two Nominal arms of TypeRef's fmt: the guarded one first.
TypeRef_fmt_Nominal(path, types, buf) ==
    IF Len(types) = 0
    THEN Sep_fmt(<<":", ":">>, "InternedString", path, buf)
    ELSE Sep_fmt(<<",", " ">>, "TypeRef", types, Sep_fmt(<<":", ":">>, "InternedString", path, buf) \o <<"<">>) \o <<">">>

\* Mutant: the OfSymbol arm writes no backticks.
TypeRef_fmt_bare(self, buf) ==
    CASE self.tag = "Tuple" -> Sep_fmt(<<",", " ">>, "TypeRef", self.types, buf \o <<"(">>) \o <<")">>
      [] self.tag = "Nominal" -> TypeRef_fmt_Nominal(self.path, self.types, buf)
      [] self.tag = "Lifetime" -> InternedString_fmt(self.s, buf)
      [] self.tag = "Id" -> InternedString_fmt(self.s, buf)
      [] self.tag = "OfSymbol" -> Symbol_fmt(self.symbol, buf)

TypeRef_fmt(self, buf) ==
    CASE self.tag = "Tuple" -> Sep_fmt(<<",", " ">>, "TypeRef", self.types, buf \o <<"(">>) \o <<")">>
      [] self.tag = "Nominal" -> TypeRef_fmt_Nominal(self.path, self.types, buf)
      [] self.tag = "Lifetime" -> InternedString_fmt(self.s, buf)
      [] self.tag = "Id" -> InternedString_fmt(self.s, buf)
      [] self.tag = "OfSymbol" -> Symbol_fmt(self.symbol, buf \o <<Backtick>>) \o <<Backtick>>

\* The Display impl that Sep's element type S selects.
Display_fmt(kind, self, buf) ==
    CASE kind = "Symbol" -> Symbol_fmt(self, buf)
      [] kind = "TypeRef" -> TypeRef_fmt(self, buf)
      [] kind = "InternedString" -> InternedString_fmt(self, buf)

\* Mutant: the String of the call before is written into again.
String_new_reused == IF out = None THEN <<>> ELSE out[1]

\* format! writes into a String it has just created.
String_new == <<>>

Symbol_canonical_form(self) == Symbol_fmt(self, String_new)
ExprSymbol_canonical_form(self) == ExprSymbol_fmt(self, String_new)
MacroSymbol_canonical_form(self) == MacroSymbol_fmt(self, String_new)
TypeRef_to_string(self) == TypeRef_fmt(self, String_new)

(***************************************************************************)
(* Inputs: every Symbol and TypeRef tree of at most MaxNodes nodes over    *)
(* the texts above, and the items of the example grammar of the module     *)
(* documentation.                                                          *)
(***************************************************************************)
RECURSIVE SymbolsOfSize(_), SymbolVecsOfSize(_)

\* The Vec<Symbol> values whose elements have n nodes in all.
SymbolVecsOfSize(n) ==
    IF n = 0
    THEN { <<>> }
    ELSE UNION { { <<s>> \o rest : s \in SymbolsOfSize(k), rest \in SymbolVecsOfSize(n - k) } : k \in 1..n }

SymbolsOfSize(n) ==
    LET vecs == SymbolVecsOfSize(n - 1)
        subs == IF n >= 2 THEN SymbolsOfSize(n - 1) ELSE {}
    IN  (IF n = 1 THEN { Symbol_Terminal(t) : t \in TerminalTexts } ELSE {})
        \cup (IF n = 1 THEN { Symbol_Nonterminal(t) : t \in NonterminalTexts } ELSE {})
        \cup { Symbol_Expr(ExprSymbol(sp, v)) : sp \in Spans, v \in vecs }
        \cup { Symbol_Macro(MacroSymbol(m, v, sp)) : m \in MacroTexts, v \in vecs, sp \in Spans }
        \cup { Symbol_Repeat(RepeatSymbol(op, c)) : op \in RepeatOps, c \in subs }
        \cup { Symbol_Choose(c) : c \in subs }
        \cup { Symbol_Name(b, c) : b \in BindingTexts, c \in subs }

Symbols == UNION { SymbolsOfSize(n) : n \in 1..MaxNodes }

RECURSIVE TypeRefsOfSize(_), TypeRefVecsOfSize(_)

TypeRefVecsOfSize(n) ==
    IF n = 0
    THEN { <<>> }
    ELSE UNION { { <<t>> \o rest : t \in TypeRefsOfSize(k), rest \in TypeRefVecsOfSize(n - k) } : k \in 1..n }

TypeRefsOfSize(n) ==
    LET vecs == TypeRefVecsOfSize(n - 1)
    IN  (IF n = 1 THEN { TypeRef_Lifetime(t) : t \in LifetimeTexts } ELSE {})
        \cup (IF n = 1 THEN { TypeRef_Id(t) : t \in TypeIdTexts } ELSE {})
        \cup { TypeRef_Tuple(v) : v \in vecs }
        \cup { TypeRef_Nominal(p, v) : p \in Paths, v \in vecs }
        \cup (IF n >= 2 THEN { TypeRef_OfSymbol(c) : c \in SymbolsOfSize(n - 1) } ELSE {})

TypeRefs == UNION { TypeRefsOfSize(n) : n \in 1..MaxNodes }

\* The example grammar: ~v:(~E ",")* ~e:E?
CommaListSymbol ==
    Symbol_Name(<<"v">>, Symbol_Repeat(RepeatSymbol("Star", Symbol_Expr(ExprSymbol(Span(5, 13),
        << Symbol_Choose(Symbol_Nonterminal(<<"E">>)), Symbol_Terminal(<<",">>) >>)))))

CommaLastSymbol ==
    Symbol_Name(<<"e">>, Symbol_Repeat(RepeatSymbol("Question", Symbol_Nonterminal(<<"E">>))))

CommaAlternative ==
    Alternative(Span(2, 40), ExprSymbol(Span(2, 20), << CommaListSymbol, CommaLastSymbol >>),
                None, Some(Action_User("let mut v = v; if let Some(e) = e { v.push(e); } v")))

\* ~Expr "(" ~Comma<Expr> ")" => Expr::CallExpr(~~)
CallAlternative ==
    Alternative(Span(2, 45), ExprSymbol(Span(2, 28),
        << Symbol_Choose(Symbol_Nonterminal(<<"E", "x", "p", "r">>)),
           Symbol_Terminal(<<"(">>),
           Symbol_Choose(Symbol_Macro(MacroSymbol(<<"C", "o", "m", "m", "a">>,
               << Symbol_Nonterminal(<<"E", "x", "p", "r">>) >>, Span(13, 24)))),
           Symbol_Terminal(<<")">>) >>),
        None, Some(Action_User("Expr::CallExpr(~~)")))

\* ID if M !~ "NO_ID" => { }
CondAlternative ==
    Alternative(Span(50, 70), ExprSymbol(Span(50, 52), << Symbol_Nonterminal(<<"I", "D">>) >>),
                Some(Condition(Span(56, 68), <<"M">>, <<"N", "O", "_", "I", "D">>, "NotMatch")),
                Some(Action_Fn(0)))

\* token parser::Token<T> where { "(" => LParen; ")" => RParen; };
TokenTypeName ==
    TypeRef_Nominal(<< <<"p", "a", "r", "s", "e", "r">>, <<"T", "o", "k", "e", "n">> >>,
                    << TypeRef_Id(<<"T">>) >>)

TokenConversions ==
    << << <<"(">>, <<"L", "P", "a", "r", "e", "n">> >>,
       << <<")">>, <<"R", "P", "a", "r", "e", "n">> >> >>

NonterminalDatas ==
    { NonterminalData(name, args, type_decl, alternatives) :
        name \in { <<"E", "x", "p", "r">>, <<"C", "o", "m", "m", "a">> },
        args \in { <<>>, << <<"E">> >>, << <<"E">>, <<"M">> >> },
        type_decl \in { None, Some(TypeRef_Id(<<"E", "x", "p", "r">>)),
                        Some(TypeRef_Nominal(<< <<"V", "e", "c">> >>, << TypeRef_Id(<<"E">>) >>)) },
        alternatives \in { <<>>, << CommaAlternative >>, << CallAlternative, CondAlternative >> } }

GrammarItems ==
    { GrammarItem_Nonterminal(d) : d \in NonterminalDatas }
    \cup { GrammarItem_TokenType(TokenTypeData(t, c)) :
             t \in { TokenTypeName, TypeRef_Id(<<"T">>) }, c \in { <<>>, TokenConversions } }

(***************************************************************************)
(* A pass over the tree: it holds one input, looks at one node of it at a  *)
(* time, and calls the operations of the node it looks at.                 *)
(***************************************************************************)
Node(kind, v) == [kind |-> kind, v |-> v]

Inputs ==
    { Node("Symbol", s) : s \in Symbols \cup { CommaListSymbol, CommaLastSymbol } }
    \cup { Node("TypeRef", t) : t \in TypeRefs }
    \cup { Node("GrammarItem", i) : i \in GrammarItems }

Range(f) == { f[i] : i \in DOMAIN f }

\* The nodes the fields of a node hold.
Children(n) ==
    CASE n.kind = "GrammarItem" ->
           IF n.v.tag = "Nonterminal"
           THEN { Node("NonterminalData", n.v.data) }
           ELSE { Node("TypeRef", n.v.data.type_name) }
      [] n.kind = "NonterminalData" ->
           { Node("TypeRef", t) : t \in Range(n.v.type_decl) }
           \cup { Node("ExprSymbol", a.expr) : a \in Range(n.v.alternatives) }
      [] n.kind = "TypeRef" ->
           CASE n.v.tag \in { "Tuple", "Nominal" } -> { Node("TypeRef", t) : t \in Range(n.v.types) }
             [] n.v.tag = "OfSymbol" -> { Node("Symbol", n.v.symbol) }
             [] OTHER -> {}
      [] n.kind = "Symbol" ->
           CASE n.v.tag = "Expr" -> { Node("ExprSymbol", n.v.expr) }
             [] n.v.tag = "Macro" -> { Node("MacroSymbol", n.v.m) }
             [] n.v.tag = "Repeat" -> { Node("Symbol", n.v.r.symbol) }
             [] n.v.tag \in { "Choose", "Name" } -> { Node("Symbol", n.v.symbol) }
             [] OTHER -> {}
      [] n.kind = "ExprSymbol" -> { Node("Symbol", s) : s \in Range(n.v.symbols) }
      [] n.kind = "MacroSymbol" -> { Node("Symbol", s) : s \in Range(n.v.args) }

Init ==
    /\ input \in Inputs
    /\ focus = input
    /\ out = None
    /\ is_macro = None
    /\ memo = None

\* The pass moves to a child of the node it looks at.
Visit ==
    /\ \E c \in Children(focus) : focus' = c
    /\ out' = None
    /\ is_macro' = None
    /\ UNCHANGED <<input, memo>>

\* The pass starts over at the root.
Restart ==
    /\ focus # input
    /\ focus' = input
    /\ out' = None
    /\ is_macro' = None
    /\ UNCHANGED <<input, memo>>

\* A rendering call returns: the string is kept in out, and a remembered
\* earlier call notes that a call on another node came after it.
Returned(string) ==
    /\ out' = Some(string)
    /\ memo' = IF memo # None /\ memo[1].node # focus
               THEN Some([memo[1] EXCEPT !.between = TRUE])
               ELSE memo
    /\ UNCHANGED <<input, focus, is_macro>>

CallSymbolCanonicalForm ==
    /\ focus.kind = "Symbol"
    /\ Returned(Symbol_canonical_form(focus.v))

CallExprSymbolCanonicalForm ==
    /\ focus.kind = "ExprSymbol"
    /\ Returned(ExprSymbol_canonical_form(focus.v))

CallMacroSymbolCanonicalForm ==
    /\ focus.kind = "MacroSymbol"
    /\ Returned(MacroSymbol_canonical_form(focus.v))

CallTypeRefToString ==
    /\ focus.kind = "TypeRef"
    /\ Returned(TypeRef_to_string(focus.v))

CallGrammarItemIsMacroDef ==
    /\ focus.kind = "GrammarItem"
    /\ is_macro' = Some(GrammarItem_is_macro_def(focus.v))
    /\ UNCHANGED <<input, focus, out, memo>>

CallNonterminalDataIsMacroDef ==
    /\ focus.kind = "NonterminalData"
    /\ is_macro' = Some(NonterminalData_is_macro_def(focus.v))
    /\ UNCHANGED <<input, focus, out, memo>>

\* The nodes whose rendering is the key of the input: the input itself and,
\* for a Symbol that wraps an ExprSymbol or a MacroSymbol, the wrapped value.
KeyNodes ==
    { input } \cup { c \in Children(input) : c.kind \in { "ExprSymbol", "MacroSymbol" } }

\* The pass keeps the key a call returned, with the node it was called on.
Remember ==
    /\ out # None
    /\ focus \in KeyNodes
    /\ memo' = Some([node |-> focus, out |-> out[1], between |-> FALSE])
    /\ UNCHANGED <<input, focus, out, is_macro>>

Next ==
    \/ Visit
    \/ Restart
    \/ CallSymbolCanonicalForm
    \/ CallExprSymbolCanonicalForm
    \/ CallMacroSymbolCanonicalForm
    \/ CallTypeRefToString
    \/ CallGrammarItemIsMacroDef
    \/ CallNonterminalDataIsMacroDef
    \/ Remember

Spec == Init /\ [][Next]_vars

(***************************************************************************)
(* Definitions the properties below are stated with.                       *)
(***************************************************************************)
Called == out # None
OnSymbol == focus.kind = "Symbol" /\ Called
OnTypeRef == focus.kind = "TypeRef" /\ Called

RECURSIVE Joined(_, _)
\* The strings strs with sep between each two neighbours.
Joined(strs, sep) ==
    IF Len(strs) = 0 THEN <<>>
    ELSE IF Len(strs) = 1 THEN strs[1]
    ELSE Joined(SubSeq(strs, 1, Len(strs) - 1), sep) \o sep \o strs[Len(strs)]

RECURSIVE TotalLen(_)
TotalLen(strs) == IF Len(strs) = 0 THEN 0 ELSE Len(Head(strs)) + TotalLen(Tail(strs))

RECURSIVE Rendering(_)
\* The reference rendering R of a Symbol.
Rendering(s) ==
    LET Each(vec) == [i \in 1..Len(vec) |-> Rendering(vec[i])]
    IN  CASE s.tag = "Terminal" -> <<Quote>> \o s.s \o <<Quote>>
          [] s.tag = "Nonterminal" -> s.s
          [] s.tag = "Expr" -> <<"(">> \o Joined(Each(s.expr.symbols), <<" ">>) \o <<")">>
          [] s.tag = "Macro" -> s.m.name \o <<"<">> \o Joined(Each(s.m.args), <<",", " ">>) \o <<">">>
          [] s.tag = "Repeat" ->
               Rendering(s.r.symbol)
               \o (CASE s.r.op = "Star" -> <<"*">> [] s.r.op = "Plus" -> <<"+">> [] s.r.op = "Question" -> <<"?">>)
          [] s.tag = "Choose" -> <<"~">> \o Rendering(s.symbol)
          [] s.tag = "Name" -> <<"~">> \o s.name \o <<":">> \o Rendering(s.symbol)

\* body is the renderings of the k >= 1 elements of vec with exactly k-1
\* separators sep, none before the first element and none after the last.
Separated(body, vec, sep) ==
    LET strs == [i \in 1..Len(vec) |-> Rendering(vec[i])]
        k == Len(vec)
    IN  /\ Len(body) = TotalLen(strs) + (k - 1) * Len(sep)
        /\ SubSeq(body, 1, Len(strs[1])) = strs[1]
        /\ SubSeq(body, Len(body) - Len(strs[k]) + 1, Len(body)) = strs[k]

\* C1: the string Symbol::canonical_form returns for a Symbol is its reference
\* rendering R: "t" for a terminal, the bare name for a nonterminal, the
\* children joined by one space in parentheses for an Expr, name<args joined by
\* ", "> for a macro, the child followed by * + or ? for a Repeat, ~child for
\* Choose, ~name:child for Name; an empty Expr is (), a macro without
\* arguments is name<>, and k >= 1 children have exactly k-1 separators, none
\* leading or trailing.
C1_CanonicalFormIsRendering ==
    OnSymbol =>
        /\ out[1] = Rendering(focus.v)
        /\ focus.v.tag = "Expr" /\ Len(focus.v.expr.symbols) = 0 => out[1] = <<"(", ")">>
        /\ focus.v.tag = "Macro" /\ Len(focus.v.m.args) = 0 => out[1] = focus.v.m.name \o <<"<", ">">>
        /\ focus.v.tag = "Expr" /\ Len(focus.v.expr.symbols) >= 1 =>
             Separated(SubSeq(out[1], 2, Len(out[1]) - 1), focus.v.expr.symbols, <<" ">>)
        /\ focus.v.tag = "Macro" /\ Len(focus.v.m.args) >= 1 =>
             Separated(SubSeq(out[1], Len(focus.v.m.name) + 2, Len(out[1]) - 1), focus.v.m.args, <<",", " ">>)

C1_Witness ==
    /\ OnSymbol
    /\ focus.v.tag = "Macro"
    /\ Len(focus.v.m.args) = 2
    /\ focus.v.m.args[1].tag = "Expr"
    /\ focus.v.m.args[2].tag = "Terminal"

NoSpan == Span(0, 0)

RECURSIVE StripSymbol(_)
\* The Symbol s with every Span field set to NoSpan.
StripSymbol(s) ==
    LET Each(vec) == [i \in 1..Len(vec) |-> StripSymbol(vec[i])]
    IN  CASE s.tag = "Expr" -> Symbol_Expr(ExprSymbol(NoSpan, Each(s.expr.symbols)))
          [] s.tag = "Macro" -> Symbol_Macro(MacroSymbol(s.m.name, Each(s.m.args), NoSpan))
          [] s.tag = "Repeat" -> Symbol_Repeat(RepeatSymbol(s.r.op, StripSymbol(s.r.symbol)))
          [] s.tag = "Choose" -> Symbol_Choose(StripSymbol(s.symbol))
          [] s.tag = "Name" -> Symbol_Name(s.name, StripSymbol(s.symbol))
          [] OTHER -> s

RECURSIVE PostfixOverPrefix(_)
\* Some Repeat of s wraps a Choose or a Name directly.
PostfixOverPrefix(s) ==
    CASE s.tag = "Expr" -> \E i \in 1..Len(s.expr.symbols) : PostfixOverPrefix(s.expr.symbols[i])
      [] s.tag = "Macro" -> \E i \in 1..Len(s.m.args) : PostfixOverPrefix(s.m.args[i])
      [] s.tag = "Repeat" -> s.r.symbol.tag \in { "Choose", "Name" } \/ PostfixOverPrefix(s.r.symbol)
      [] s.tag \in { "Choose", "Name" } -> PostfixOverPrefix(s.symbol)
      [] OTHER -> FALSE

\* The input Symbols up to spans, each with its canonical form.
KeyedSymbols == { <<Symbol_canonical_form(s), s>> : s \in { StripSymbol(t) : t \in Symbols } }

\* The canonical forms that two Symbols of keyed share though the two differ
\* in more than spans.
SharedKeys(keyed) == { p[1] : p \in { p \in keyed : \E q \in keyed : q[1] = p[1] /\ q[2] # p[2] } }

AmbiguousKeys == SharedKeys(KeyedSymbols)
AmbiguousPlainKeys == SharedKeys({ p \in KeyedSymbols : ~PostfixOverPrefix(p[2]) })

\* C2 as claimed: no two input Symbols that differ in more than spans have
\* the same canonical form.
C2_Injective == OnSymbol => out[1] \notin AmbiguousKeys

\* C2 as amended: among the Symbols in which no Repeat wraps a Choose or a
\* Name directly, no two that differ in more than spans have the same
\* canonical form.
C2_InjectiveWithoutPostfixOverPrefix ==
    OnSymbol /\ ~PostfixOverPrefix(focus.v) => out[1] \notin AmbiguousPlainKeys

C2_Witness ==
    /\ OnSymbol
    /\ focus.v.tag = "Choose"
    /\ focus.v.symbol.tag = "Repeat"
    /\ ~PostfixOverPrefix(focus.v)
    /\ out[1] \in AmbiguousKeys

RECURSIVE Respans(_), RespansVec(_)

\* The Vec<Symbol> values that differ from vec in Span fields only.
RespansVec(vec) ==
    IF Len(vec) = 0
    THEN { <<>> }
    ELSE { <<h>> \o t : h \in Respans(Head(vec)), t \in RespansVec(Tail(vec)) }

\* The Symbol values that differ from s in Span fields only, at any depth.
Respans(s) ==
    CASE s.tag = "Expr" ->
           { Symbol_Expr(ExprSymbol(sp, v)) : sp \in Spans, v \in RespansVec(s.expr.symbols) }
      [] s.tag = "Macro" ->
           { Symbol_Macro(MacroSymbol(s.m.name, v, sp)) : v \in RespansVec(s.m.args), sp \in Spans }
      [] s.tag = "Repeat" ->
           { Symbol_Repeat(RepeatSymbol(s.r.op, c)) : c \in Respans(s.r.symbol) }
      [] s.tag = "Choose" -> { Symbol_Choose(c) : c \in Respans(s.symbol) }
      [] s.tag = "Name" -> { Symbol_Name(s.name, c) : c \in Respans(s.symbol) }
      [] OTHER -> { s }

\* The ExprSymbol and MacroSymbol values that differ from the given one in
\* Span fields only.
RespansExpr(e) == { s.expr : s \in Respans(Symbol_Expr(e)) }
RespansMacro(m) == { s.m : s \in Respans(Symbol_Macro(m)) }

\* C3: the string canonical_form returns for a Symbol, an ExprSymbol or a
\* MacroSymbol is the canonical form of every value that differs from it
\* only in spans, its own or those of nested values at any depth.
C3_SpansDoNotInfluence ==
    /\ OnSymbol => \A s \in Respans(focus.v) : Symbol_canonical_form(s) = out[1]
    /\ focus.kind = "ExprSymbol" /\ Called =>
         \A e \in RespansExpr(focus.v) : ExprSymbol_canonical_form(e) = out[1]
    /\ focus.kind = "MacroSymbol" /\ Called =>
         \A m \in RespansMacro(focus.v) : MacroSymbol_canonical_form(m) = out[1]

C3_Witness ==
    /\ focus.kind = "MacroSymbol"
    /\ Called
    /\ Len(focus.v.args) = 1
    /\ focus.v.args[1].tag = "Expr"
    /\ \E m \in RespansMacro(focus.v) : m.span # focus.v.span /\ m.args[1].expr.span # focus.v.args[1].expr.span

OnCommaList == OnSymbol /\ StripSymbol(focus.v) = StripSymbol(CommaListSymbol)

\* C4 as claimed: Name("v", Repeat(Star, Expr([Choose(Nonterminal("E")),
\* Terminal(",")]))) has the canonical form ~v:("E" ",")*
C4_CommaListQuoted ==
    OnCommaList => out[1] = <<"~", "v", ":", "(", Quote, "E", Quote, " ", Quote, ",", Quote, ")", "*">>

\* C4 as amended: Name("v", Repeat(Star, Expr([Choose(Nonterminal("E")),
\* Terminal(",")]))) has the canonical form ~v:(~E ",")*
C4_CommaListChosen ==
    OnCommaList => out[1] = <<"~", "v", ":", "(", "~", "E", " ", Quote, ",", Quote, ")", "*">>

C4_Witness == OnCommaList

\* C5: NonterminalData::is_macro_def returns true exactly when args is not
\* empty, whatever the name, type_decl and alternatives are.
C5_NonterminalIsMacroDef ==
    focus.kind = "NonterminalData" /\ is_macro # None =>
        (is_macro[1] <=> Len(focus.v.args) >= 1)

C5_Witness ==
    /\ focus.kind = "NonterminalData"
    /\ is_macro = Some(TRUE)
    /\ focus.v.type_decl # None
    /\ Len(focus.v.alternatives) = 2

\* C6: GrammarItem::is_macro_def returns false for a TokenType item and, for
\* Nonterminal(d), what d.is_macro_def() returns: it is true only for a
\* nonterminal item with at least one parameter.
C6_GrammarItemIsMacroDef ==
    focus.kind = "GrammarItem" /\ is_macro # None =>
        /\ focus.v.tag = "TokenType" => is_macro[1] = FALSE
        /\ focus.v.tag = "Nonterminal" => is_macro[1] = NonterminalData_is_macro_def(focus.v.data)
        /\ is_macro[1] => focus.v.tag = "Nonterminal" /\ Len(focus.v.data.args) >= 1

C6_Witness ==
    /\ focus.kind = "GrammarItem"
    /\ focus.v.tag = "TokenType"
    /\ is_macro = Some(FALSE)

RECURSIVE TypeRendering(_)
\* The reference rendering of a TypeRef.
TypeRendering(t) ==
    LET Each(vec) == [i \in 1..Len(vec) |-> TypeRendering(vec[i])]
    IN  CASE t.tag = "Tuple" -> <<"(">> \o Joined(Each(t.types), <<",", " ">>) \o <<")">>
          [] t.tag = "Nominal" ->
               IF Len(t.types) = 0
               THEN Joined(t.path, <<":", ":">>)
               ELSE Joined(t.path, <<":", ":">>) \o <<"<">> \o Joined(Each(t.types), <<",", " ">>) \o <<">">>
          [] t.tag \in { "Lifetime", "Id" } -> t.s
          [] t.tag = "OfSymbol" -> <<Backtick>> \o Symbol_canonical_form(t.symbol) \o <<Backtick>>

\* C7: a Nominal with no types renders as its path joined by :: and holds no
\* angle bracket; with one or more types it renders as the joined path, <,
\* the types' renderings joined by ", ", and >. parser::Token with the one
\* type T renders as parser::Token<T>.
C7_NominalRendering ==
    OnTypeRef /\ focus.v.tag = "Nominal" =>
        /\ Len(focus.v.types) = 0 =>
             /\ out[1] = Joined(focus.v.path, <<":", ":">>)
             /\ \A i \in 1..Len(out[1]) : out[1][i] \notin { "<", ">" }
        /\ Len(focus.v.types) >= 1 =>
             out[1] = Joined(focus.v.path, <<":", ":">>) \o <<"<">>
                      \o Joined([i \in 1..Len(focus.v.types) |-> TypeRendering(focus.v.types[i])], <<",", " ">>)
                      \o <<">">>
        /\ focus.v = TokenTypeName =>
             out[1] = <<"p", "a", "r", "s", "e", "r", ":", ":", "T", "o", "k", "e", "n", "<", "T", ">">>

C7_Witness ==
    /\ OnTypeRef
    /\ focus.v.tag = "Nominal"
    /\ Len(focus.v.path) = 2
    /\ Len(focus.v.types) = 1
    /\ focus.v.types[1].tag = "Nominal"
    /\ Len(focus.v.types[1].types) = 0

\* C8: a Tuple renders as its component types joined by ", " in parentheses,
\* the empty tuple as (); a Lifetime and an Id render as their text; an
\* OfSymbol renders as the symbol's canonical form between two backticks.
C8_OtherTypeRefRendering ==
    OnTypeRef =>
        /\ focus.v.tag = "Tuple" =>
             /\ out[1] = <<"(">> \o Joined([i \in 1..Len(focus.v.types) |-> TypeRendering(focus.v.types[i])], <<",", " ">>) \o <<")">>
             /\ Len(focus.v.types) = 0 => out[1] = <<"(", ")">>
        /\ focus.v.tag \in { "Lifetime", "Id" } => out[1] = focus.v.s
        /\ focus.v.tag = "OfSymbol" =>
             out[1] = <<Backtick>> \o Symbol_canonical_form(focus.v.symbol) \o <<Backtick>>

C8_Witness ==
    /\ OnTypeRef
    /\ focus.v.tag = "Tuple"
    /\ Len(focus.v.types) = 2
    /\ focus.v.types[1].tag = "Lifetime"
    /\ focus.v.types[2].tag = "Nominal"

Wraps(outer, inner) ==
    /\ outer.kind = "Symbol"
    /\ inner.kind \in { "ExprSymbol", "MacroSymbol" }
    /\ inner \in Children(outer)

C10_EntryPointsAgree ==
    memo # None /\ Called /\ (Wraps(memo[1].node, focus) \/ Wraps(focus, memo[1].node)) =>
        out[1] = memo[1].out

C10_Witness ==
    /\ memo # None
    /\ Called
    /\ Wraps(memo[1].node, focus)
    /\ focus.kind = "ExprSymbol"
    /\ Len(focus.v.symbols) = 2

====
